---- MODULE Spec2Model ----
(***************************************************************************)
(* Model of the trend integration service                                  *)
(* (src/server/trend-service/trend_service.py).                            *)
(*                                                                         *)
(* Numbers.  A raw score is an integer in some fixed-point unit.  The      *)
(* quotient computed by safe_normalize is kept exact, as a rational        *)
(* [n, d]; a score that the code rounds (round(v, 3), round(v, 4)) is an   *)
(* integer in units of 1/Scale = 0.0001, so 0.5 is 5000 and 1.0 is Scale.  *)
(* Python's round is round-half-even on the value it is given; the model   *)
(* rounds the exact rational the same way.                                 *)
(*                                                                         *)
(* Strings.  A string is a sequence of chunks, a chunk being a word, a     *)
(* comma or a blank, so that split(",") and strip() are computed rather    *)
(* than assumed.  None is <<>> and a present optional value x is <<x>>.    *)
(***************************************************************************)
EXTENDS Integers, Sequences, FiniteSets, TLC

VARIABLES
    fn,              \* the pure function under test ("" in the service)
    args,            \* its arguments
    ret,             \* its result, <<>> before the call
    _HAS_PYTRENDS,   \* whether the import of pytrends succeeded
    _HAS_SKLEARN,    \* whether the import of numpy, pandas, sklearn succeeded
    hash_seed,       \* the seed of the process's string hash
    _CLUSTER_CACHE,  \* None, or the one entry [key, value]
    lastCall,        \* the latest call of compute_fashion_clusters (history)
    request,         \* the request served last
    world,           \* what the collaborators did while it was served
    response,        \* the response it got
    running,         \* the coroutine the event loop is executing, 0 for none
    pc,              \* where each request's handler stands
    frame            \* each handler's locals

fnVars == <<fn, args, ret>>

envVars == <<_HAS_PYTRENDS, _HAS_SKLEARN, hash_seed>>

svcVars == <<lastCall, request, world, response>>

loopVars == <<running, pc, frame>>

vars == <<fnVars, envVars, _CLUSTER_CACHE, svcVars, loopVars>>

---------------------------------------------------------------------------
(* Bounds of the model *)

\* longest score sequence given to safe_normalize on its own
MaxLen == 3
\* largest raw score given to safe_normalize on its own
MaxRaw == 3
\* longest keyword sequence given to fetch_google_trends on its own
MaxKeywords == 6
\* most clusters in a summary given to combine_trends_with_clusters on its own
MaxClusters == 3
\* most categories in a trend mapping given to combine_trends_with_clusters
MaxTrends == 2
\* the calls of mock_trend_scores observed with the same keywords
MaxCalls == 2
\* the number of items of the dataset the clustering dependency loads
DatasetSize == 3

---------------------------------------------------------------------------
(* Numbers *)

Scale == 10 ^ 4

Zero == [n |-> 0, d |-> 1]

One == [n |-> 1, d |-> 1]

\* a rounded score (units of 1/Scale) as a rational
Fixed(v) == [n |-> v, d |-> Scale]

RatEq(a, b) == a.n * b.d = b.n * a.d

RatLe(a, b) == a.n * b.d <= b.n * a.d

\* the greatest common divisor of a >= 0 and b > 0
RECURSIVE GCD(_, _)
GCD(a, b) == IF a = 0 THEN b ELSE GCD(b % a, a)

\* n/d to the nearest integer, ties to even (n >= 0, d > 0)
RoundHalfEven(n, d) ==
    LET q == n \div d
        r == n % d
    IN  IF 2 * r < d THEN q
        ELSE IF 2 * r > d THEN q + 1
        ELSE IF q % 2 = 0 THEN q ELSE q + 1

\* round(x, digits) for digits <= 4, in units of 1/Scale; the fraction is
\* brought to lowest terms first, which keeps the products small
Round(x, digits) ==
    LET g == GCD(x.n, x.d)
    IN  (Scale \div (10 ^ digits))
          * RoundHalfEven((x.n \div g) * (10 ^ digits), x.d \div g)

SeqMax(s) == CHOOSE x \in {s[i] : i \in DOMAIN s} : \A j \in DOMAIN s : s[j] <= x

SeqMin(s) == CHOOSE x \in {s[i] : i \in DOMAIN s} : \A j \in DOMAIN s : x <= s[j]

\* the sequences over S of length at most n
SeqsUpTo(S, n) == UNION {[1..k -> S] : k \in 0..n}

---------------------------------------------------------------------------
(* Utilities *)

\* max(0.0, s)
ClampNonNeg(s) == IF s > 0 THEN s ELSE 0

\* safe_normalize scaling by the maximum alone
safe_normalize_by_max(scores) ==
    LET arr == [i \in DOMAIN scores |-> ClampNonNeg(scores[i])]
        smax == IF arr # <<>> THEN SeqMax(arr) ELSE 0
        smin == IF arr # <<>> THEN SeqMin(arr) ELSE 0
    IN  IF smax = smin
        THEN [i \in DOMAIN arr |-> Zero]
        ELSE [i \in DOMAIN arr |-> [n |-> arr[i], d |-> smax]]

safe_normalize(scores) ==
    LET arr == [i \in DOMAIN scores |-> ClampNonNeg(scores[i])]
        smax == IF arr # <<>> THEN SeqMax(arr) ELSE 0
        smin == IF arr # <<>> THEN SeqMin(arr) ELSE 0
    IN  IF smax = smin
        THEN [i \in DOMAIN arr |-> Zero]
        ELSE [i \in DOMAIN arr |-> [n |-> arr[i] - smin, d |-> smax - smin]]

---------------------------------------------------------------------------
(* Strings and dictionaries *)

Blank == " "

Comma == ","

\* len(c) of a chunk: the words the model uses, every other chunk one character
ChunkLen(c) ==
    CASE c = "tops" -> 4
      [] c = "dresses" -> 7
      [] c = "shoes" -> 5
      [] c = "accessories" -> 11
      [] c = "outerwear" -> 9
      [] c = "unknown" -> 7
      [] c = "linen" -> 5
      [] c = "denim" -> 5
      [] c = "cluster_" -> 8
      [] c = "clusters_" -> 9
      [] OTHER -> 1

RECURSIVE StrLen(_)
StrLen(s) == IF s = <<>> THEN 0 ELSE ChunkLen(Head(s)) + StrLen(Tail(s))

DigitChar(d) ==
    CASE d = 0 -> "0" [] d = 1 -> "1" [] d = 2 -> "2" [] d = 3 -> "3"
      [] d = 4 -> "4" [] d = 5 -> "5" [] d = 6 -> "6" [] d = 7 -> "7"
      [] d = 8 -> "8" [] d = 9 -> "9"

RECURSIVE NatStr(_)
NatStr(n) == IF n < 10 THEN <<DigitChar(n)>>
             ELSE NatStr(n \div 10) \o <<DigitChar(n % 10)>>

\* str(n) of an integer, as an f-string formats it
IntStr(n) == IF n < 0 THEN <<"-">> \o NatStr(0 - n) ELSE NatStr(n)

RECURSIVE LStrip(_)
LStrip(s) == IF s # <<>> /\ Head(s) = Blank THEN LStrip(Tail(s)) ELSE s

RECURSIVE RStrip(_)
RStrip(s) == IF s # <<>> /\ s[Len(s)] = Blank
             THEN RStrip(SubSeq(s, 1, Len(s) - 1)) ELSE s

\* str.strip()
Strip(s) == RStrip(LStrip(s))

\* str.split(","): the pieces between the commas, at least one piece
RECURSIVE Split(_)
Split(s) ==
    IF s = <<>> THEN << <<>> >>
    ELSE LET rest == Split(Tail(s))
         IN  IF Head(s) = Comma THEN << <<>> >> \o rest
             ELSE << <<Head(s)>> \o Head(rest) >> \o Tail(rest)

NonEmpty(s) == s # <<>>

\* [k.strip() for k in keywords.split(",") if k.strip()]
ParseKeywords(keywords) ==
    LET pieces == Split(keywords)
    IN  SelectSeq([i \in DOMAIN pieces |-> Strip(pieces[i])], NonEmpty)

\* A dict is the sequence of its items [k, v] in insertion order, keys unique.
DictHas(d, key) == \E i \in DOMAIN d : d[i].k = key

DictGet(d, key, default) ==
    IF DictHas(d, key) THEN d[CHOOSE i \in DOMAIN d : d[i].k = key].v ELSE default

\* d[key] = v: a new key goes last, a known key keeps its place
DictPut(d, key, v) ==
    IF DictHas(d, key)
    THEN [i \in DOMAIN d |-> IF d[i].k = key THEN [k |-> key, v |-> v] ELSE d[i]]
    ELSE Append(d, [k |-> key, v |-> v])

DictKeys(d) == [i \in DOMAIN d |-> d[i].k]

DictValues(d) == [i \in DOMAIN d |-> d[i].v]

\* dict(zip(keys, vals))
DictZip(keys, vals) ==
    [i \in 1..(IF Len(keys) < Len(vals) THEN Len(keys) ELSE Len(vals)) |->
        [k |-> keys[i], v |-> vals[i]]]

---------------------------------------------------------------------------
(* mock_trend_scores *)

Abs(x) == IF x < 0 THEN 0 - x ELSE x

HashMod == 2 ^ 12

\* the chunks a hashed string may hold, in a fixed order
Alphabet == <<" ", ",", "tops", "linen", "denim", "dresses", "shoes",
              "accessories", "outerwear", "unknown", "cluster_">>

ChunkCode(c) ==
    IF \E i \in DOMAIN Alphabet : Alphabet[i] = c
    THEN CHOOSE i \in DOMAIN Alphabet : Alphabet[i] = c
    ELSE 0

RECURSIVE HashFold(_, _)
HashFold(h, s) ==
    IF s = <<>> THEN h
    ELSE HashFold((h * 33 + ChunkCode(Head(s)) * 7 + 1) % HashMod, Tail(s))

\* hash(k): a signed value fixed by the string and by the process's hash seed
\* (the interpreter keys its string hash per process); a stand-in keyed hash
StrHash(seed, k) == HashFold((seed * 613) % HashMod, k) - (HashMod \div 2)

\* the hash seeds a process may start with
HashSeeds == {0, 1}

\* round(min(1.0, max(0.01, base)), 3), base in hundredths
MockRaw(seed, k) ==
    LET h == Abs(StrHash(seed, k)) % 1000
        base == (h % 70) + (StrLen(k) % 30)
        lo == IF base < 1 THEN 1 ELSE base
        cl == IF lo > 100 THEN 100 ELSE lo
    IN  Round([n |-> cl, d |-> 100], 3)

RECURSIVE MockLoop(_, _, _)
MockLoop(seed, keywords, scores) ==
    IF keywords = <<>> THEN scores
    ELSE MockLoop(seed, Tail(keywords),
                  DictPut(scores, Head(keywords), MockRaw(seed, Head(keywords))))

mock_trend_scores(seed, keywords) ==
    LET scores == MockLoop(seed, keywords, <<>>)
        norm_vals == safe_normalize(DictValues(scores))
    IN  DictZip(DictKeys(scores),
                [i \in DOMAIN norm_vals |-> Round(norm_vals[i], 3)])

---------------------------------------------------------------------------
(* fetch_google_trends *)

CHUNK == 5

\* What the provider does with one batch: it raises, it answers with an
\* empty frame, or it answers with a frame whose columns give, for some
\* keywords, the mean interest (the mean of the column after fillna(0.0),
\* a fixed-point integer); cols[k] is <<>> when the frame has no column k.
Raises == [kind |-> "raise", cols |-> <<>>]

EmptyFrame == [kind |-> "empty", cols |-> <<>>]

Frame(cols) == [kind |-> "frame", cols |-> cols]

HasColumn(out, k) ==
    \E i \in DOMAIN out.cols : out.cols[i].k = k /\ out.cols[i].v # <<>>

\* the body of the for loop for one chunk, with the except clause swallowing
\* the provider's error
BatchStepSwallow(all_scores, chunk, out) ==
    LET RECURSIVE Put(_, _)
        Put(d, ks) ==
            IF ks = <<>> THEN d
            ELSE Put(DictPut(d, Head(ks),
                             IF out.kind = "frame" /\ HasColumn(out, Head(ks))
                             THEN DictGet(out.cols, Head(ks), <<0>>)[1] ELSE 0),
                     Tail(ks))
    IN  [raised |-> FALSE, all_scores |-> Put(all_scores, chunk)]

\* the body of the for loop scaling the scores of its chunk to [0,1] before
\* it merges them
BatchStepNormalized(all_scores, chunk, out) ==
    LET RECURSIVE Put(_, _)
        Put(d, ks) ==
            IF ks = <<>> THEN d
            ELSE Put(DictPut(d, Head(ks),
                             IF out.kind = "frame" /\ HasColumn(out, Head(ks))
                             THEN DictGet(out.cols, Head(ks), <<0>>)[1] ELSE 0),
                     Tail(ks))
        local == Put(<<>>, chunk)
        normed == safe_normalize(DictValues(local))
        RECURSIVE Merge(_, _)
        Merge(d, i) ==
            IF i > Len(local) THEN d
            ELSE Merge(DictPut(d, local[i].k, Round(normed[i], 4)), i + 1)
    IN  IF out.kind = "raise"
        THEN [raised |-> TRUE, all_scores |-> all_scores]
        ELSE [raised |-> FALSE, all_scores |-> Merge(all_scores, 1)]

\* the body of the for loop for one chunk
BatchStep(all_scores, chunk, out) ==
    LET RECURSIVE Put(_, _)
        Put(d, ks) ==
            IF ks = <<>> THEN d
            ELSE Put(DictPut(d, Head(ks),
                             IF out.kind = "frame" /\ HasColumn(out, Head(ks))
                             THEN DictGet(out.cols, Head(ks), <<0>>)[1] ELSE 0),
                     Tail(ks))
    IN  IF out.kind = "raise"
        THEN [raised |-> TRUE, all_scores |-> all_scores]
        ELSE [raised |-> FALSE, all_scores |-> Put(all_scores, chunk)]

\* the loop entered once more than range(0, len(keywords), CHUNK) allows
RECURSIVE FetchLoopOffByOne(_, _, _, _, _)
FetchLoopOffByOne(keywords, outcomes, i, all_scores, sent) ==
    IF i > Len(keywords)
    THEN [raised |-> FALSE, all_scores |-> all_scores, sent |-> sent]
    ELSE LET last == IF i + CHUNK < Len(keywords) THEN i + CHUNK ELSE Len(keywords)
             chunk == SubSeq(keywords, i + 1, last)
             step == BatchStep(all_scores, chunk, outcomes[(i \div CHUNK) + 1])
         IN  IF step.raised
             THEN [raised |-> TRUE, all_scores |-> step.all_scores,
                   sent |-> Append(sent, chunk)]
             ELSE FetchLoopOffByOne(keywords, outcomes, i + CHUNK,
                                    step.all_scores, Append(sent, chunk))

\* for i in range(0, len(keywords), CHUNK), from offset i on; sent is the
\* sequence of chunks handed to the provider so far
RECURSIVE FetchLoop(_, _, _, _, _)
FetchLoop(keywords, outcomes, i, all_scores, sent) ==
    IF i >= Len(keywords)
    THEN [raised |-> FALSE, all_scores |-> all_scores, sent |-> sent]
    ELSE LET last == IF i + CHUNK < Len(keywords) THEN i + CHUNK ELSE Len(keywords)
             chunk == SubSeq(keywords, i + 1, last)
             step == BatchStep(all_scores, chunk, outcomes[(i \div CHUNK) + 1])
         IN  IF step.raised
             THEN [raised |-> TRUE, all_scores |-> step.all_scores,
                   sent |-> Append(sent, chunk)]
             ELSE FetchLoop(keywords, outcomes, i + CHUNK, step.all_scores,
                            Append(sent, chunk))

\* The result of a call: raised with its error, or returned = <<mapping>>;
\* client tells whether TrendReq(...) was constructed and sent is the
\* sequence of chunks handed to the provider.
\* ctor_ok: whether the provider's constructor TrendReq(...) returns.
fetch_google_trends(has_pytrends, ctor_ok, keywords, outcomes) ==
    IF ~has_pytrends
    THEN [raised |-> TRUE, error |-> "pytrends not installed",
          returned |-> <<>>, client |-> FALSE, sent |-> <<>>]
    ELSE IF ~ctor_ok
    THEN [raised |-> TRUE, error |-> "TrendReq",
          returned |-> <<>>, client |-> TRUE, sent |-> <<>>]
    ELSE LET r == FetchLoop(keywords, outcomes, 0, <<>>, <<>>)
             keys == DictKeys(r.all_scores)
             normed == safe_normalize(DictValues(r.all_scores))
         IN  IF r.raised
             THEN [raised |-> TRUE, error |-> "pytrends failure",
                   returned |-> <<>>, client |-> TRUE, sent |-> r.sent]
             ELSE [raised |-> FALSE, error |-> "",
                   returned |-> <<DictZip(keys,
                        [i \in DOMAIN normed |-> Round(normed[i], 4)])>>,
                   client |-> TRUE, sent |-> r.sent]

---------------------------------------------------------------------------
(* combine_trends_with_clusters *)

\* A cluster of a summary: label_hint is <<>> when the key is absent and
\* <<s>> when it holds the string s; centroid_norm is <<>> on the synthetic
\* paths.
Cluster(id, count, sample_indices, label_hint, centroid_norm) ==
    [cluster_id |-> id, count |-> count, sample_indices |-> sample_indices,
     label_hint |-> label_hint, centroid_norm |-> centroid_norm]

\* c.get("label_hint", f"cluster_{c['cluster_id']}"): the synthesized name
\* only for a cluster without any label_hint
CategoryOfMissingHintOnly(c) ==
    IF c.label_hint # <<>>
    THEN c.label_hint[1]
    ELSE <<"cluster_">> \o IntStr(c.cluster_id)

\* c.get("label_hint") or f"cluster_{c['cluster_id']}"
Category(c) ==
    IF c.label_hint # <<>> /\ c.label_hint[1] # <<>>
    THEN c.label_hint[1]
    ELSE <<"cluster_">> \o IntStr(c.cluster_id)

\* s[:n]
Take(s, n) == SubSeq(s, 1, IF n < Len(s) THEN n ELSE Len(s))

\* 0.6 * trend_val + 0.4 * pop
Weighted(trend_val, pop) ==
    [n |-> 6 * trend_val.n * pop.d + 4 * pop.n * trend_val.d,
     d |-> 10 * trend_val.d * pop.d]

\* the loop body with the two weights exchanged
ClusterInfoSwapped(trend_scores, c, pop) ==
    LET cat == Category(c)
        trend_val == Fixed(DictGet(trend_scores, cat, 0))
        combined == Weighted(pop, trend_val)
    IN  [cluster_id |-> c.cluster_id,
         category |-> cat,
         cluster_pop_score |-> Round(pop, 3),
         trend_score |-> Round(trend_val, 3),
         combined_score |-> Round(combined, 3),
         sample_indices |-> Take(c.sample_indices, 3)]

\* the body of the loop over zip(clusters, pop_norm)
ClusterInfo(trend_scores, c, pop) ==
    LET cat == Category(c)
        trend_val == Fixed(DictGet(trend_scores, cat, 0))
        combined == Weighted(trend_val, pop)
    IN  [cluster_id |-> c.cluster_id,
         category |-> cat,
         cluster_pop_score |-> Round(pop, 3),
         trend_score |-> Round(trend_val, 3),
         combined_score |-> Round(combined, 3),
         sample_indices |-> Take(c.sample_indices, 3)]

\* the loop over trend_scores.items() keeping every category
ExtraTrendsUnfiltered(trend_scores, cluster_info) ==
    [i \in DOMAIN trend_scores |->
        [category |-> trend_scores[i].k,
         trend_score |-> Round(Fixed(trend_scores[i].v), 3)]]

\* the loop over trend_scores.items()
ExtraTrends(trend_scores, cluster_info) ==
    LET Unmatched(item) ==
            ~ \E i \in DOMAIN cluster_info : cluster_info[i].category = item.k
        kept == SelectSeq(trend_scores, Unmatched)
    IN  [i \in DOMAIN kept |->
            [category |-> kept[i].k,
             trend_score |-> Round(Fixed(kept[i].v), 3)]]

\* The result without its generated_at timestamp.
combine_trends_with_clusters(trend_scores, cluster_summary) ==
    LET cs == cluster_summary.clusters
        cluster_counts == [i \in DOMAIN cs |-> cs[i].count]
        pop_norm == IF cluster_counts # <<>> THEN safe_normalize(cluster_counts)
                    ELSE <<>>
        cluster_info == [i \in DOMAIN pop_norm |->
                            ClusterInfo(trend_scores, cs[i], pop_norm[i])]
    IN  [clusters |-> cluster_info,
         extra_trends |-> ExtraTrends(trend_scores, cluster_info)]

---------------------------------------------------------------------------
(* The pure functions, each applied to inputs drawn from bounded sets *)

\* the service does not run while a pure function is applied
ServiceOff ==
    /\ _HAS_PYTRENDS = FALSE /\ _HAS_SKLEARN = FALSE /\ hash_seed = 0
    /\ _CLUSTER_CACHE = <<>>
    /\ lastCall = <<>> /\ request = <<>> /\ world = <<>> /\ response = <<>>
    /\ running = 0 /\ pc = <<>> /\ frame = <<>>

serviceVars == <<envVars, _CLUSTER_CACHE, svcVars, loopVars>>

NormalizeInputs == SeqsUpTo((0 - 1)..MaxRaw, MaxLen)

InitNormalize ==
    /\ fn = "safe_normalize"
    /\ args \in NormalizeInputs
    /\ ret = <<>>
    /\ ServiceOff

CallSafeNormalize ==
    /\ fn = "safe_normalize"
    /\ ret = <<>>
    /\ ret' = <<safe_normalize(args)>>
    /\ UNCHANGED <<fn, args, serviceVars>>

SpecNormalize == InitNormalize /\ [][CallSafeNormalize]_vars

\* keywords and provider answers for fetch_google_trends on its own
FetchWords == {<<"tops">>, <<"linen">>, <<"denim">>}

Cols(t, l, d) ==
    <<[k |-> <<"tops">>, v |-> t], [k |-> <<"linen">>, v |-> l],
      [k |-> <<"denim">>, v |-> d]>>

BatchOutcomes ==
    {Raises, EmptyFrame, Frame(Cols(<<0>>, <<1>>, <<3>>)),
     Frame(Cols(<<3>>, <<>>, <<1>>))}

\* the number of chunks of n keywords
NumChunks(n) == (n + CHUNK - 1) \div CHUNK

InitFetch ==
    /\ fn = "fetch_google_trends"
    /\ args \in [has_pytrends : BOOLEAN, ctor_ok : BOOLEAN,
                 keywords : SeqsUpTo(FetchWords, MaxKeywords),
                 outcomes : [1..NumChunks(MaxKeywords) -> BatchOutcomes]]
    /\ ret = <<>>
    /\ ServiceOff

CallFetchGoogleTrends ==
    /\ fn = "fetch_google_trends"
    /\ ret = <<>>
    /\ ret' = <<fetch_google_trends(args.has_pytrends, args.ctor_ok,
                                    args.keywords, args.outcomes)>>
    /\ UNCHANGED <<fn, args, serviceVars>>

SpecFetch == InitFetch /\ [][CallFetchGoogleTrends]_vars

\* mock_trend_scores called in one run of the interpreter and in the next:
\* ret collects the results with the hash seed of the run that gave them
InitMock ==
    /\ fn = "mock_trend_scores"
    /\ args \in SeqsUpTo(FetchWords, MaxLen)
    /\ ret = <<>>
    /\ _HAS_PYTRENDS = FALSE /\ _HAS_SKLEARN = FALSE
    /\ hash_seed \in HashSeeds
    /\ _CLUSTER_CACHE = <<>>
    /\ lastCall = <<>> /\ request = <<>> /\ world = <<>> /\ response = <<>>
    /\ running = 0 /\ pc = <<>> /\ frame = <<>>

CallMockTrendScores ==
    /\ fn = "mock_trend_scores"
    /\ Len(ret) < MaxCalls
    /\ ret' = Append(ret, [seed |-> hash_seed,
                           scores |-> mock_trend_scores(hash_seed, args)])
    /\ UNCHANGED <<fn, args, serviceVars>>

\* the process ends and a new one starts: the interpreter keys hash() anew
Restart ==
    /\ fn = "mock_trend_scores"
    /\ ret # <<>>
    /\ hash_seed' \in HashSeeds
    /\ UNCHANGED <<fnVars, _HAS_PYTRENDS, _HAS_SKLEARN, _CLUSTER_CACHE,
                   svcVars, loopVars>>

NextMock == CallMockTrendScores \/ Restart

SpecMock == InitMock /\ [][NextMock]_vars

\* trend mappings and cluster summaries for combine_trends_with_clusters
TrendKeys == {<<"tops">>, <<"linen">>, <<"cluster_", "0">>}

TrendVals == {3333, Scale}

TrendDicts ==
    {d \in SeqsUpTo([k : TrendKeys, v : TrendVals], MaxTrends) :
        \A i, j \in DOMAIN d : i # j => d[i].k # d[j].k}

CountVals == {0, 1, 3}

LabelHints == {<<>>, << <<>> >>, << <<"tops">> >>}

\* compute_fashion_clusters numbers its clusters 0, 1, ... in order
ClusterListSet ==
    {[i \in DOMAIN cs |-> Cluster(i - 1, cs[i].count, <<7, 8, 9, 10, 11>>,
                                  cs[i].label_hint, <<>>)] :
        cs \in SeqsUpTo([count : CountVals, label_hint : LabelHints], MaxClusters)}

InitCombine ==
    /\ fn = "combine_trends_with_clusters"
    /\ args \in [trend_scores : TrendDicts,
                 cluster_summary : [clusters : ClusterListSet]]
    /\ ret = <<>>
    /\ ServiceOff

CallCombine ==
    /\ fn = "combine_trends_with_clusters"
    /\ ret = <<>>
    /\ ret' = <<combine_trends_with_clusters(args.trend_scores,
                                             args.cluster_summary)>>
    /\ UNCHANGED <<fn, args, serviceVars>>

SpecCombine == InitCombine /\ [][CallCombine]_vars

---------------------------------------------------------------------------
(* compute_fashion_clusters *)

\* f"clusters_{n_clusters}_{sample_limit}"
CacheKey(n_clusters, sample_limit) ==
    <<"clusters_">> \o IntStr(n_clusters) \o <<"_">> \o IntStr(sample_limit)

\* the cache test answering for any key once the slot is filled
CacheHitAnyKey(cache, cache_key) == cache # <<>>

\* the cache test never answering
CacheHitNever(cache, cache_key) == FALSE

\* the cache test answering only for a summary of the live branch
CacheHitLiveOnly(cache, cache_key) ==
    /\ cache # <<>>
    /\ cache[1].key = cache_key
    /\ cache[1].value.meta.source = "fashion-mnist"

\* _CLUSTER_CACHE and _CLUSTER_CACHE.get("key") == cache_key
CacheHit(cache, cache_key) == cache # <<>> /\ cache[1].key = cache_key

\* {"key": cache_key, "value": clusters}
CacheEntry(cache_key, clusters) == <<[key |-> cache_key, value |-> clusters]>>

\* random.randint(lo, hi), drawn at its two ends
RandInt(lo, hi) == {lo, hi}

\* [random.randint(0, 999) for _ in range(3)], one draw standing for all
SampleDraws == {<<0, 999, 500>>}

MockVocabulary == {<<"tops">>, <<"dresses">>, <<"shoes">>, <<"accessories">>}

FallbackVocabulary == {<<"tops">>, <<"dresses">>, <<"outerwear">>}

\* the summaries a synthetic branch can build: n clusters numbered from 0,
\* each with a random count, random sample indices and a random label
SyntheticValues(n_clusters, source, counts, vocabulary) ==
    {[meta |-> [n_clusters |-> n_clusters, source |-> source, sampled |-> <<>>],
      clusters |-> [i \in DOMAIN cs |->
                       Cluster(i - 1, cs[i].count, cs[i].idx, <<cs[i].label>>, <<>>)]] :
        cs \in [1..n_clusters ->
                   [count : counts, idx : SampleDraws, label : vocabulary]]}

\* the branch taken when sklearn is missing
MockValues(n_clusters) ==
    SyntheticValues(n_clusters, "mock", RandInt(20, 200), MockVocabulary)

\* the except branch tagging its summaries as the mock branch does
FallbackValuesTaggedMock(n_clusters) ==
    SyntheticValues(n_clusters, "mock", RandInt(10, 200), FallbackVocabulary)

\* the except branch of the live path
FallbackValues(n_clusters) ==
    SyntheticValues(n_clusters, "fallback_error", RandInt(10, 200),
                    FallbackVocabulary)

\* Xs.shape[0]: sample_limit items when the dataset holds more, else all
Sampled(sample_limit) ==
    IF sample_limit # 0 /\ DatasetSize > sample_limit THEN sample_limit
    ELSE DatasetSize

\* idx: the dataset indices of the sampled items; the seeded generator's
\* choice is fixed, the model takes the last sample_limit items backwards
SampleIdx(sample_limit) ==
    IF sample_limit # 0 /\ DatasetSize > sample_limit
    THEN [i \in 1..sample_limit |-> DatasetSize - i]
    ELSE [i \in 1..DatasetSize |-> i - 1]

\* the positions labelled c, the last sampled item never looked at
RECURSIVE WhereDropLast(_, _, _)
WhereDropLast(labels, c, from) ==
    IF from >= Len(labels) THEN <<>>
    ELSE (IF labels[from] = c THEN <<from - 1>> ELSE <<>>)
         \o WhereDropLast(labels, c, from + 1)

\* list(np.where(labels == c)[0]): the sampled positions (from 0) labelled c
RECURSIVE Where(_, _, _)
Where(labels, c, from) ==
    IF from > Len(labels) THEN <<>>
    ELSE (IF labels[from] = c THEN <<from - 1>> ELSE <<>>)
         \o Where(labels, c, from + 1)

\* the summary of the live path for the labels fit_predict returned; the
\* centroid norm, a float of the fitted model, is kept as one value
LiveValue(n_clusters, sample_limit, labels) ==
    LET idx == SampleIdx(sample_limit)
    IN  [meta |-> [n_clusters |-> n_clusters, source |-> "fashion-mnist",
                   sampled |-> <<Sampled(sample_limit)>>],
         clusters |-> [c1 \in 1..n_clusters |->
            LET inds == Where(labels, c1 - 1, 1)
                first == Take(inds, 5)
            IN  Cluster(c1 - 1, Len(inds),
                        [j \in DOMAIN first |-> idx[first[j] + 1]],
                        <<<<"unknown">>>>, <<1>>)]]

\* Every labelling KMeans may return: one label below n_clusters per item.
LiveValues(n_clusters, sample_limit) ==
    {LiveValue(n_clusters, sample_limit, labels) :
        labels \in [1..Sampled(sample_limit) -> 0..(n_clusters - 1)]}

\* The branches below the cache test: the branch taken and the summaries it
\* can build. pipeline_ok tells whether every step of the try block
\* (download, PCA, KMeans) succeeds.
Recompute(has_sklearn, n_clusters, sample_limit, pipeline_ok) ==
    IF ~has_sklearn
    THEN [path |-> "mock", pipeline |-> "unused",
          values |-> MockValues(n_clusters)]
    ELSE IF pipeline_ok
    THEN [path |-> "live", pipeline |-> "returned",
          values |-> LiveValues(n_clusters, sample_limit)]
    ELSE [path |-> "fallback_error", pipeline |-> "raised",
          values |-> FallbackValues(n_clusters)]

\* a call whose except branch returns its summary without storing it
ComputeFallbackUnstored(cache, has_sklearn, n_clusters, sample_limit, pipeline_ok) ==
    LET cache_key == CacheKey(n_clusters, sample_limit)
        fresh == Recompute(has_sklearn, n_clusters, sample_limit, pipeline_ok)
    IN  IF CacheHit(cache, cache_key)
        THEN {[value |-> cache[1].value, cache |-> cache, path |-> "hit",
               pipeline |-> "unused"]}
        ELSE {[value |-> v,
               cache |-> IF fresh.path = "fallback_error" THEN cache
                         ELSE CacheEntry(cache_key, v),
               path |-> fresh.path, pipeline |-> fresh.pipeline] :
                 v \in fresh.values}

\* The outcomes of one call: the summary returned, the cache it leaves, the
\* branch taken and what became of the pipeline.
compute_fashion_clusters(cache, has_sklearn, n_clusters, sample_limit, pipeline_ok) ==
    LET cache_key == CacheKey(n_clusters, sample_limit)
        fresh == Recompute(has_sklearn, n_clusters, sample_limit, pipeline_ok)
    IN  IF CacheHit(cache, cache_key)
        THEN {[value |-> cache[1].value, cache |-> cache, path |-> "hit",
               pipeline |-> "unused"]}
        ELSE {[value |-> v, cache |-> CacheEntry(cache_key, v),
               path |-> fresh.path, pipeline |-> fresh.pipeline] :
                 v \in fresh.values}

\* whether the try block may succeed or raise in a call, when it is entered
PipelineRuns(cache, has_sklearn, n_clusters, sample_limit) ==
    IF has_sklearn /\ ~CacheHit(cache, CacheKey(n_clusters, sample_limit))
    THEN BOOLEAN ELSE {TRUE}

---------------------------------------------------------------------------
(* The endpoints *)

REFERENCE_ASSET_PATH ==
    "/mnt/data/A_presentation_slide_titled_\"The_Challenge_in_Fash.png"

\* {t["category"]: t["score"] for t in curated_mock_trends()["trends"]}
CuratedScores ==
    <<[k |-> <<"linen">>, v |-> 9200],
      [k |-> <<"oversized-blazer">>, v |-> 7900],
      [k |-> <<"pastel-denim">>, v |-> 6600],
      [k |-> <<"sustainable-fabrics">>, v |-> 8700],
      [k |-> <<"athleisure">>, v |-> 5800]>>

\* not keywords: None or the empty string
Falsy(keywords) == keywords = <<>> \/ keywords[1] = <<>>

Response(endpoint, status, body) ==
    [endpoint |-> endpoint, status |-> status, body |-> body]

\* the two early returns of api_trends, with the second one left out
TrendsRejectionAbsentOnly(keywords) ==
    IF Falsy(keywords) THEN <<"please provide ?keywords=kw1,kw2,...">>
    ELSE <<>>

\* the two early returns of api_trends: <<error>>, or <<>> to go on
TrendsRejection(keywords) ==
    IF Falsy(keywords) THEN <<"please provide ?keywords=kw1,kw2,...">>
    ELSE IF ParseKeywords(keywords[1]) = <<>>
    THEN <<"no valid keywords provided">>
    ELSE <<>>

\* api_trends: the response, and whether the provider was asked and raised
api_trends(has_pytrends, seed, keywords, run) ==
    LET rejected == TrendsRejection(keywords)
        kws == ParseKeywords(keywords[1])
        res == fetch_google_trends(has_pytrends, run.ctor_ok, kws, run.outcomes)
    IN  IF rejected # <<>>
        THEN [fetch |-> "unused",
              response |-> Response("/api/trends", 400,
                  [source |-> "", error |-> rejected[1], scores |-> <<>>])]
        ELSE IF has_pytrends
        THEN IF ~res.raised
             THEN [fetch |-> "returned",
                   response |-> Response("/api/trends", 200,
                       [source |-> "pytrends", error |-> "",
                        scores |-> res.returned[1]])]
             ELSE [fetch |-> "raised",
                   response |-> Response("/api/trends", 200,
                       [source |-> "fallback_pytrends_error", error |-> res.error,
                        scores |-> mock_trend_scores(seed, kws)])]
        ELSE [fetch |-> "unused",
              response |-> Response("/api/trends", 200,
                  [source |-> "mock", error |-> "",
                   scores |-> mock_trend_scores(seed, kws)])]

\* the "get trends" part of api_combined with the inner try left out: the
\* provider's error leaves the part
CombinedTrendScoresUncaught(has_pytrends, seed, keywords, run) ==
    LET kws == ParseKeywords(keywords[1])
        res == fetch_google_trends(has_pytrends, run.ctor_ok, kws, run.outcomes)
    IN  IF ~Falsy(keywords)
        THEN IF has_pytrends
             THEN IF ~res.raised
                  THEN [fetch |-> "returned", raised |-> FALSE,
                        trend_scores |-> res.returned[1]]
                  ELSE [fetch |-> "raised", raised |-> TRUE, trend_scores |-> <<>>]
             ELSE [fetch |-> "unused", raised |-> FALSE,
                   trend_scores |-> mock_trend_scores(seed, kws)]
        ELSE [fetch |-> "unused", raised |-> FALSE, trend_scores |-> CuratedScores]

\* the "get trends" part of api_combined: the trend scores it goes on with,
\* whether the provider was asked and raised, and whether an exception
\* leaves the part
CombinedTrendScores(has_pytrends, seed, keywords, run) ==
    LET kws == ParseKeywords(keywords[1])
        res == fetch_google_trends(has_pytrends, run.ctor_ok, kws, run.outcomes)
    IN  IF ~Falsy(keywords)
        THEN IF has_pytrends
             THEN IF ~res.raised
                  THEN [fetch |-> "returned", raised |-> FALSE,
                        trend_scores |-> res.returned[1]]
                  ELSE [fetch |-> "raised", raised |-> FALSE,
                        trend_scores |-> mock_trend_scores(seed, kws)]
             ELSE [fetch |-> "unused", raised |-> FALSE,
                   trend_scores |-> mock_trend_scores(seed, kws)]
        ELSE [fetch |-> "unused", raised |-> FALSE, trend_scores |-> CuratedScores]

\* the body of a 200 response of api_combined, without its timestamp
CombinedBody(trend_scores, clusters) ==
    LET combined == combine_trends_with_clusters(trend_scores, clusters)
    IN  [clusters |-> combined.clusters,
         extra_trends |-> combined.extra_trends,
         reference_asset |-> REFERENCE_ASSET_PATH]

\* except Exception as e: return JSONResponse(status_code=500, ...)
ServerError(endpoint) == Response(endpoint, 500, [error |-> "exception"])

---------------------------------------------------------------------------
(* The service, one request at a time *)

DefaultSampleLimit == 5000

\* the n_clusters and sample_limit parameters of cluster requests
NClusters == {1, 2}

SampleLimits == {2, DefaultSampleLimit}

\* the n_clusters parameter of the requests of the whole service
ServedNClusters == {1}

\* the keywords parameter: absent, empty, separators and blanks only, one
\* keyword, two keywords
Queries ==
    {<<>>, <<<<>>>>, <<<<",">>>>, <<<<" ", ",", " ">>>>, <<<<"tops">>>>,
     <<<<" ", "linen", ",", "tops">>>>}

\* what the provider may do in a request: the client's constructor raises,
\* or it answers the one batch of the request
ProviderRuns ==
    {[ctor_ok |-> FALSE, outcomes |-> <<Raises>>]}
      \cup {[ctor_ok |-> TRUE, outcomes |-> <<o>>] : o \in BatchOutcomes}

\* one run stands for all when the request never reaches the provider
RunsFor(asked) ==
    IF asked THEN ProviderRuns
    ELSE {[ctor_ok |-> TRUE, outcomes |-> <<EmptyFrame>>]}

\* the history of the latest call of compute_fashion_clusters: its
\* arguments, its result, the branch taken, the branch that built the result
\* (the one of an earlier call when the cache answers), the key of the call
\* before it, and whether it returns to the key of the call before that one
Called(n_clusters, sample_limit, out) ==
    LET key == <<n_clusters, sample_limit>>
        last == IF lastCall = <<>> THEN <<>>
                ELSE <<<<lastCall[1].n_clusters, lastCall[1].sample_limit>>>>
    IN  <<[n_clusters |-> n_clusters, sample_limit |-> sample_limit,
           value |-> out.value, path |-> out.path,
           made |-> IF out.path = "hit" /\ lastCall # <<>>
                    THEN lastCall[1].made ELSE out.path,
           prev |-> last,
           returning |-> /\ lastCall # <<>>
                         /\ lastCall[1].prev = <<key>>
                         /\ last # <<key>>]>>

Init ==
    /\ fn = "" /\ args = <<>> /\ ret = <<>>
    /\ _HAS_PYTRENDS \in BOOLEAN
    /\ _HAS_SKLEARN \in BOOLEAN
    /\ hash_seed \in HashSeeds
    /\ _CLUSTER_CACHE = <<>>
    /\ lastCall = <<>> /\ request = <<>> /\ world = <<>> /\ response = <<>>
    /\ running = 0 /\ pc = <<>> /\ frame = <<>>

Request(endpoint, keywords, n_clusters, sample_limit) ==
    [endpoint |-> endpoint, keywords |-> keywords,
     n_clusters |-> n_clusters, sample_limit |-> sample_limit]

\* GET /api/trends?keywords=...
ApiTrends(keywords, run) ==
    LET r == api_trends(_HAS_PYTRENDS, hash_seed, keywords, run)
    IN  /\ request' = Request("/api/trends", keywords, 0, 0)
        /\ world' = [fetch |-> r.fetch, pipeline |-> "unused"]
        /\ response' = r.response
        /\ UNCHANGED <<fnVars, envVars, _CLUSTER_CACHE, lastCall, loopVars>>

\* GET /api/clusters?n_clusters=...&sample_limit=...
ApiClusters(n_clusters, sample_limit, pipeline_ok) ==
    \E out \in compute_fashion_clusters(_CLUSTER_CACHE, _HAS_SKLEARN,
                                        n_clusters, sample_limit, pipeline_ok) :
        /\ request' = Request("/api/clusters", <<>>, n_clusters, sample_limit)
        /\ world' = [fetch |-> "unused", pipeline |-> out.pipeline]
        /\ _CLUSTER_CACHE' = out.cache
        /\ lastCall' = Called(n_clusters, sample_limit, out)
        /\ response' = Response("/api/clusters", 200, out.value)
        /\ UNCHANGED <<fnVars, envVars, loopVars>>

\* GET /api/combined?keywords=...&n_clusters=...
ApiCombined(keywords, n_clusters, run, pipeline_ok) ==
    LET t == CombinedTrendScores(_HAS_PYTRENDS, hash_seed, keywords, run)
    IN  /\ request' = Request("/api/combined", keywords, n_clusters,
                              DefaultSampleLimit)
        /\ IF t.raised
           THEN /\ world' = [fetch |-> t.fetch, pipeline |-> "unused"]
                /\ response' = ServerError("/api/combined")
                /\ UNCHANGED <<_CLUSTER_CACHE, lastCall>>
           ELSE \E out \in compute_fashion_clusters(_CLUSTER_CACHE, _HAS_SKLEARN,
                               n_clusters, DefaultSampleLimit, pipeline_ok) :
                /\ world' = [fetch |-> t.fetch, pipeline |-> out.pipeline]
                /\ _CLUSTER_CACHE' = out.cache
                /\ lastCall' = Called(n_clusters, DefaultSampleLimit, out)
                /\ response' = Response("/api/combined", 200,
                                        CombinedBody(t.trend_scores, out.value))
        /\ UNCHANGED <<fnVars, envVars, loopVars>>

\* whether a request of api_trends reaches the provider
TrendsAsks(keywords) == _HAS_PYTRENDS /\ TrendsRejection(keywords) = <<>>

\* whether a request of api_combined reaches the provider
CombinedAsks(keywords) == _HAS_PYTRENDS /\ ~Falsy(keywords)

Next ==
    \/ \E keywords \in Queries : \E run \in RunsFor(TrendsAsks(keywords)) :
          ApiTrends(keywords, run)
    \/ \E n_clusters \in ServedNClusters :
          \E ok \in PipelineRuns(_CLUSTER_CACHE, _HAS_SKLEARN, n_clusters,
                                 DefaultSampleLimit) :
             ApiClusters(n_clusters, DefaultSampleLimit, ok)
    \/ \E keywords \in Queries, n_clusters \in ServedNClusters :
          \E run \in RunsFor(CombinedAsks(keywords)),
             ok \in PipelineRuns(_CLUSTER_CACHE, _HAS_SKLEARN, n_clusters,
                                 DefaultSampleLimit) :
             ApiCombined(keywords, n_clusters, run, ok)

Spec == Init /\ [][Next]_vars

---------------------------------------------------------------------------
(* The cluster endpoint alone, over several keys *)

InitCache ==
    /\ fn = "" /\ args = <<>> /\ ret = <<>>
    /\ _HAS_PYTRENDS = FALSE
    /\ _HAS_SKLEARN \in BOOLEAN
    /\ hash_seed = 0
    /\ _CLUSTER_CACHE = <<>>
    /\ lastCall = <<>> /\ request = <<>> /\ world = <<>> /\ response = <<>>
    /\ running = 0 /\ pc = <<>> /\ frame = <<>>

NextCache ==
    \E n_clusters \in NClusters, sample_limit \in SampleLimits :
       \E ok \in PipelineRuns(_CLUSTER_CACHE, _HAS_SKLEARN, n_clusters,
                              sample_limit) :
          ApiClusters(n_clusters, sample_limit, ok)

SpecCache == InitCache /\ [][NextCache]_vars

---------------------------------------------------------------------------
(* The cluster endpoint under concurrent requests *)

\* the requests that can be in flight at once
NumProcs == 2

Procs == 1..NumProcs

\* the n_clusters and sample_limit parameters of the concurrent requests
LoopNClusters == {1}

\* handlers run wherever a request arrives, as on a pool of threads
LoopFreeThreaded == TRUE

\* api_clusters is a coroutine without an await: the event loop runs it from
\* its first line to its return before it starts another handler
LoopFree == running = 0

NoFrame == <<>>

\* the locals of a call: its arguments, the slot as read by the cache test,
\* the summary to return and the branch taken
Locals(n_clusters, sample_limit) ==
    [n_clusters |-> n_clusters, sample_limit |-> sample_limit,
     seen |-> <<>>, value |-> <<>>, path |-> ""]

FrameKey(f) == CacheKey(f.n_clusters, f.sample_limit)

InitLoop ==
    /\ fn = "" /\ args = <<>> /\ ret = <<>>
    /\ _HAS_PYTRENDS = FALSE
    /\ _HAS_SKLEARN \in BOOLEAN
    /\ hash_seed = 0
    /\ _CLUSTER_CACHE = <<>>
    /\ lastCall = <<>> /\ request = <<>> /\ world = <<>> /\ response = <<>>
    /\ running = 0
    /\ pc = [p \in Procs |-> "idle"]
    /\ frame = [p \in Procs |-> NoFrame]

\* a request reaches the server and waits for the event loop
Arrive(p, n_clusters, sample_limit) ==
    /\ pc[p] = "idle"
    /\ pc' = [pc EXCEPT ![p] = "pending"]
    /\ frame' = [frame EXCEPT ![p] = Locals(n_clusters, sample_limit)]
    /\ UNCHANGED <<fnVars, envVars, _CLUSTER_CACHE, svcVars, running>>

\* the event loop starts the handler
Enter(p) ==
    /\ pc[p] = "pending"
    /\ LoopFree
    /\ running' = running + 1
    /\ pc' = [pc EXCEPT ![p] = "test"]
    /\ UNCHANGED <<fnVars, envVars, _CLUSTER_CACHE, svcVars, frame>>

\* if _CLUSTER_CACHE and _CLUSTER_CACHE.get("key") == cache_key
Test(p) ==
    /\ pc[p] = "test"
    /\ frame' = [frame EXCEPT ![p].seen = _CLUSTER_CACHE]
    /\ pc' = [pc EXCEPT ![p] =
                 IF CacheHit(_CLUSTER_CACHE, FrameKey(frame[p]))
                 THEN "hit" ELSE "miss"]
    /\ UNCHANGED <<fnVars, envVars, _CLUSTER_CACHE, svcVars, running>>

\* return _CLUSTER_CACHE["value"]: the slot is read again
ReturnCached(p) ==
    /\ pc[p] = "hit"
    /\ frame' = [frame EXCEPT ![p].value = <<_CLUSTER_CACHE[1].value>>,
                              ![p].path = "hit"]
    /\ pc' = [pc EXCEPT ![p] = "done"]
    /\ UNCHANGED <<fnVars, envVars, _CLUSTER_CACHE, svcVars, running>>

\* one of the three branches builds the summary
Build(p, pipeline_ok) ==
    /\ pc[p] = "miss"
    /\ LET fresh == Recompute(_HAS_SKLEARN, frame[p].n_clusters,
                              frame[p].sample_limit, pipeline_ok)
       IN  \E v \in fresh.values :
              frame' = [frame EXCEPT ![p].value = <<v>>, ![p].path = fresh.path]
    /\ pc' = [pc EXCEPT ![p] = "store"]
    /\ UNCHANGED <<fnVars, envVars, _CLUSTER_CACHE, svcVars, running>>

\* _CLUSTER_CACHE = {"key": cache_key, "value": clusters}
Store(p) ==
    /\ pc[p] = "store"
    /\ _CLUSTER_CACHE' = CacheEntry(FrameKey(frame[p]), frame[p].value[1])
    /\ pc' = [pc EXCEPT ![p] = "done"]
    /\ UNCHANGED <<fnVars, envVars, svcVars, running, frame>>

\* return JSONResponse(content=clusters): the handler ends
Respond(p) ==
    /\ pc[p] = "done"
    /\ request' = Request("/api/clusters", <<>>, frame[p].n_clusters,
                          frame[p].sample_limit)
    /\ response' = Response("/api/clusters", 200, frame[p].value[1])
    /\ running' = running - 1
    /\ pc' = [pc EXCEPT ![p] = "idle"]
    /\ frame' = [frame EXCEPT ![p] = NoFrame]
    /\ UNCHANGED <<fnVars, envVars, _CLUSTER_CACHE, lastCall, world>>

NextLoop ==
    \E p \in Procs :
       \/ \E n_clusters \in LoopNClusters, sample_limit \in SampleLimits :
             Arrive(p, n_clusters, sample_limit)
       \/ Enter(p)
       \/ Test(p)
       \/ ReturnCached(p)
       \/ \E ok \in (IF _HAS_SKLEARN THEN BOOLEAN ELSE {TRUE}) : Build(p, ok)
       \/ Store(p)
       \/ Respond(p)

SpecLoop == InitLoop /\ [][NextLoop]_vars

---------------------------------------------------------------------------
(* Claims about the pure functions *)

\* max(0, x), stated apart from the code
NonNeg(x) == IF x < 0 THEN 0 ELSE x

\* C10: for every sequence v, negative elements counting as 0, normalize(v)
\* has the length and order of v, every element in [0,1]; when all clamped
\* elements are equal (also for the empty and the one-element sequence) every
\* element is 0, and otherwise element i is (v[i] - min) / (max - min).
C10_NormalizeContract ==
    (fn = "safe_normalize" /\ ret # <<>>) =>
        LET out == ret[1]
            c == [i \in DOMAIN args |-> NonNeg(args[i])]
            vals == {c[i] : i \in DOMAIN c}
        IN  /\ Len(out) = Len(args)
            /\ \A i \in DOMAIN out :
                  out[i].d > 0 /\ 0 <= out[i].n /\ out[i].n <= out[i].d
            /\ Cardinality(vals) <= 1 => \A i \in DOMAIN out : out[i].n = 0
            /\ Cardinality(vals) > 1 =>
                  LET lo == CHOOSE x \in vals : \A y \in vals : x <= y
                      hi == CHOOSE x \in vals : \A y \in vals : y <= x
                  IN  \A i \in DOMAIN out :
                         out[i].n * (hi - lo) = (c[i] - lo) * out[i].d

\* a negative element, and an element strictly between the minimum and the
\* maximum, have been normalized
C10_Witness ==
    /\ fn = "safe_normalize" /\ ret # <<>>
    /\ \E i \in DOMAIN args : args[i] < 0
    /\ \E j \in DOMAIN ret[1] : 0 < ret[1][j].n /\ ret[1][j].n < ret[1][j].d

\* C4: fetch_interest is all-or-nothing: a call either raises and returns no
\* mapping or returns a mapping and raises nothing, and when the provider
\* raises for any batch of the call the call raises, whatever the earlier
\* batches gathered.
C4_AllOrNothing ==
    (fn = "fetch_google_trends" /\ ret # <<>>) =>
        LET r == ret[1]
            nb == NumChunks(Len(args.keywords))
        IN  /\ r.raised <=> (r.returned = <<>>)
            /\ (/\ args.has_pytrends /\ args.ctor_ok
                /\ \E b \in 1..nb : args.outcomes[b].kind = "raise")
               => r.raised /\ r.returned = <<>>

\* the second batch raised after the first had gathered scores
C4_Witness ==
    /\ fn = "fetch_google_trends" /\ ret # <<>>
    /\ args.has_pytrends /\ args.ctor_ok
    /\ Len(args.keywords) > CHUNK
    /\ args.outcomes[1].kind = "frame" /\ args.outcomes[2].kind = "raise"
    /\ ret[1].raised /\ Len(ret[1].sent) = 2

\* C7 as claimed: fetch_interest of an empty keyword sequence returns an
\* empty mapping, uses no provider client and raises no error.
C7_EmptyNeverRaises ==
    (fn = "fetch_google_trends" /\ ret # <<>> /\ args.keywords = <<>>) =>
        /\ ~ret[1].raised
        /\ ret[1].returned = << <<>> >>
        /\ ~ret[1].client
        /\ ret[1].sent = <<>>

\* C7 as amended: fetch_interest of an empty keyword sequence hands no batch
\* to the provider; it returns an empty mapping when the provider is installed
\* and its client can be constructed, and raises when the provider is not
\* installed.
C7_EmptySendsNothing ==
    (fn = "fetch_google_trends" /\ ret # <<>> /\ args.keywords = <<>>) =>
        /\ ret[1].sent = <<>>
        /\ (args.has_pytrends /\ args.ctor_ok) =>
              ~ret[1].raised /\ ret[1].returned = << <<>> >>
        /\ ~args.has_pytrends => ret[1].raised /\ ret[1].returned = <<>>

\* an empty keyword sequence has been fetched with the provider installed
C7_Witness ==
    /\ fn = "fetch_google_trends" /\ ret # <<>>
    /\ args.keywords = <<>> /\ args.has_pytrends /\ args.ctor_ok
    /\ ret[1].returned = << <<>> >>

\* the exact popularity of cluster i of a summary, stated apart from the code
ExactPop(cs, i) ==
    LET counts == {NonNeg(cs[j].count) : j \in DOMAIN cs}
        lo == CHOOSE x \in counts : \A y \in counts : x <= y
        hi == CHOOSE x \in counts : \A y \in counts : y <= x
    IN  IF hi = lo THEN Zero ELSE [n |-> NonNeg(cs[i].count) - lo, d |-> hi - lo]

\* C8 as claimed: in every CombinedEntry, combined_score equals
\* 0.6 * trend_score + 0.4 * cluster_pop_score and lies in [0,1].
C8_ExactWeightedSum ==
    (fn = "combine_trends_with_clusters" /\ ret # <<>>) =>
        \A i \in DOMAIN ret[1].clusters :
            LET e == ret[1].clusters[i]
            IN  /\ 10 * e.combined_score = 6 * e.trend_score + 4 * e.cluster_pop_score
                /\ 0 <= e.combined_score /\ e.combined_score <= Scale

\* C8 as amended: in every CombinedEntry, combined_score is 0.6 * trend +
\* 0.4 * pop of the unrounded trend value and popularity, rounded to three
\* decimals; it lies in [0,1] and is within 0.001 of 0.6 * trend_score +
\* 0.4 * cluster_pop_score of the entry's own rounded fields.
C8_RoundedWeightedSum ==
    (fn = "combine_trends_with_clusters" /\ ret # <<>>) =>
        \A i \in DOMAIN ret[1].clusters :
            LET e == ret[1].clusters[i]
                t == DictGet(args.trend_scores, e.category, 0)
                pop == ExactPop(args.cluster_summary.clusters, i)
                exact == [n |-> 6 * t * pop.d + 4 * pop.n * Scale,
                          d |-> 10 * Scale * pop.d]
            IN  /\ e.combined_score = Round(exact, 3)
                /\ 0 <= e.combined_score /\ e.combined_score <= Scale
                /\ Abs(10 * e.combined_score
                       - (6 * e.trend_score + 4 * e.cluster_pop_score)) <= 100

\* an entry with a positive trend score and a popularity that rounding changes
C8_Witness ==
    /\ fn = "combine_trends_with_clusters" /\ ret # <<>>
    /\ \E i \in DOMAIN ret[1].clusters :
          LET e == ret[1].clusters[i]
          IN  /\ e.trend_score > 0
              /\ e.cluster_pop_score = 3330
              /\ e.combined_score > 0

\* whether category k is the resolved category of a cluster of the summary
Matches(cs, k) ==
    \E j \in DOMAIN cs :
        k = (IF cs[j].label_hint \in {<<>>, << <<>> >>}
             THEN <<"cluster_">> \o IntStr(cs[j].cluster_id)
             ELSE cs[j].label_hint[1])

\* the place of category k in the trend mapping
Place(d, k) == CHOOSE i \in DOMAIN d : d[i].k = k

\* the extra trends hold exactly the unmatched categories, once each, in the
\* order of the trend mapping, each with the score Score(v) of its trend v
ExtraTrendsAre(Score(_)) ==
    LET d == args.trend_scores
        cs == args.cluster_summary.clusters
        ex == ret[1].extra_trends
    IN  /\ \A i \in DOMAIN d :
              LET at == {a \in DOMAIN ex : ex[a].category = d[i].k}
              IN  IF Matches(cs, d[i].k)
                  THEN at = {}
                  ELSE /\ Cardinality(at) = 1
                       /\ \A a \in at : ex[a].trend_score = Score(d[i].v)
        /\ \A a \in DOMAIN ex : DictHas(d, ex[a].category)
        /\ \A a, b \in DOMAIN ex :
              a < b => Place(d, ex[a].category) < Place(d, ex[b].category)

Unrounded(v) == v

ToThreeDecimals(v) == 10 * RoundHalfEven(v, 10)

\* C9 as claimed: a category of trend_scores is in the extra trends exactly
\* once, with its trend score preserved, when it equals no cluster's resolved
\* category, and not at all otherwise; the extra trends are in first-seen
\* order of trend_scores.
C9_ExtraTrendsPreserved ==
    (fn = "combine_trends_with_clusters" /\ ret # <<>>) =>
        ExtraTrendsAre(Unrounded)

\* C9 as amended: the same, with the trend score rounded to three decimals
\* (so preserved only when it has no more than three decimals).
C9_ExtraTrendsRounded ==
    (fn = "combine_trends_with_clusters" /\ ret # <<>>) =>
        ExtraTrendsAre(ToThreeDecimals)

\* one category matched a cluster and another became an extra trend
C9_Witness ==
    /\ fn = "combine_trends_with_clusters" /\ ret # <<>>
    /\ Len(ret[1].extra_trends) = 1
    /\ Len(args.trend_scores) = 2
    /\ \E i \in DOMAIN args.trend_scores :
          Matches(args.cluster_summary.clusters, args.trend_scores[i].k)

---------------------------------------------------------------------------
(* Claims about the cluster cache *)

LastKey == <<lastCall[1].n_clusters, lastCall[1].sample_limit>>

\* a step in which compute_fashion_clusters is called after an earlier call
CallAfterCall == lastCall # <<>> /\ lastCall' # lastCall

\* C1: a call with the key of the call right before it returns the result of
\* that call, identical by value, from the cache: no branch builds a summary
\* and the clustering pipeline is not started, so across the two calls the
\* pipeline runs at most once.
C1_SecondCallHits ==
    [][(CallAfterCall /\ LastKey' = LastKey) =>
          /\ lastCall'[1].value = lastCall[1].value
          /\ response'.body = response.body
          /\ lastCall'[1].path = "hit"
          /\ world'.pipeline = "unused"]_vars

\* a second call with the key of a call that ran the live pipeline was
\* answered from the cache
C1_Witness ==
    /\ lastCall # <<>>
    /\ lastCall[1].prev = <<LastKey>>
    /\ lastCall[1].path = "hit"
    /\ lastCall[1].value.meta.source = "fashion-mnist"

\* C2: the cache holds one entry. A call whose key differs from the key of
\* the call before it builds its summary anew (it never returns a stored
\* value), and leaves the slot holding the new key with the new summary and
\* nothing of the old key; so after k1 then k2, a call with k1 recomputes.
C2_DifferentKeyReplaces ==
    [][(CallAfterCall /\ LastKey' # LastKey) =>
          /\ lastCall'[1].path # "hit"
          /\ _CLUSTER_CACHE' = CacheEntry(CacheKey(LastKey'[1], LastKey'[2]),
                                          lastCall'[1].value)
          /\ _CLUSTER_CACHE'[1].key # CacheKey(LastKey[1], LastKey[2])
          /\ Len(_CLUSTER_CACHE') = 1]_vars

\* a call with k1, after a call with k2, after a call with k1, recomputed
C2_Witness ==
    /\ lastCall # <<>>
    /\ lastCall[1].returning
    /\ lastCall[1].path # "hit"
    /\ _CLUSTER_CACHE[1].value = lastCall[1].value

\* C3: whatever requests are in flight, a call sees the slot unchanged from
\* its cache test to its return: the value it returns is the slot's value
\* under the requested key, and the entry it stored has not been replaced.
C3_SlotUnderMutualExclusion ==
    \A p \in Procs :
       /\ pc[p] \in {"hit", "miss", "store"} => _CLUSTER_CACHE = frame[p].seen
       /\ pc[p] = "done" =>
             _CLUSTER_CACHE = CacheEntry(FrameKey(frame[p]), frame[p].value[1])

\* a call replaces the entry of another key while a second request waits
C3_Witness ==
    \E p, q \in Procs :
       /\ p # q
       /\ pc[q] = "pending"
       /\ pc[p] = "done"
       /\ frame[p].path # "hit"
       /\ frame[p].seen # <<>>
       /\ frame[p].seen[1].key # FrameKey(frame[p])
       /\ FrameKey(frame[q]) # FrameKey(frame[p])

---------------------------------------------------------------------------
(* Claims about the endpoints *)

Answered(endpoint) == response # <<>> /\ response.endpoint = endpoint

\* the keywords of the request parsed as the handlers parse them
RequestKeywords == ParseKeywords(request.keywords[1])

\* the request named keywords and no real provider answered them
MockScoresDue ==
    /\ ~Falsy(request.keywords)
    /\ ~_HAS_PYTRENDS \/ world.fetch = "raised"

\* C5: a combined request is answered 200 with a combined result whatever
\* the provider and the clustering dependency do: when the provider is
\* missing or raises, the result is the combination of the mock scores of the
\* keywords; when sklearn is missing or the pipeline raises, the clusters
\* combined are those of a synthetic summary; there is one entry per
\* requested cluster.
C5_CombinedNeverFails ==
    Answered("/api/combined") =>
       /\ response.status = 200
       /\ Len(response.body.clusters) = request.n_clusters
       /\ MockScoresDue =>
             response.body = CombinedBody(
                 mock_trend_scores(hash_seed, RequestKeywords), lastCall[1].value)
       /\ ~_HAS_SKLEARN => lastCall[1].value.meta.source = "mock"
       /\ world.pipeline = "raised" =>
             lastCall[1].value.meta.source = "fallback_error"

\* a combined request with keywords was answered although the provider
\* raised and a step of the clustering pipeline raised
C5_Witness ==
    /\ Answered("/api/combined")
    /\ world.fetch = "raised"
    /\ world.pipeline = "raised"
    /\ RequestKeywords # <<>>
    /\ response.status = 200
    /\ response.body.clusters # <<>>

\* a keywords parameter that is absent, empty, or made of separators and
\* blanks only
NoKeywords(keywords) ==
    \/ keywords = <<>>
    \/ \A i \in DOMAIN keywords[1] : keywords[1][i] \in {Comma, Blank}

KeywordEndpoints == {"/api/trends", "/api/combined"}

\* C6 as stated: on every endpoint that takes keywords, a request without
\* keywords is rejected.
C6_RejectedEverywhere ==
    (response # <<>> /\ response.endpoint \in KeywordEndpoints
        /\ NoKeywords(request.keywords)) => response.status = 400

\* C6, amended: /api/trends rejects a request without keywords with status
\* 400, without asking the provider and without scores; /api/combined does
\* not reject it and answers 200, combining the clusters with the curated
\* table when the parameter is absent or empty and with an empty trend
\* mapping when it holds separators and blanks only.
C6_RejectedByTrendsOnly ==
    /\ (Answered("/api/trends") /\ NoKeywords(request.keywords)) =>
          /\ response.status = 400
          /\ response.body.scores = <<>>
          /\ world.fetch = "unused"
    /\ (Answered("/api/trends") /\ response.status = 400) =>
          NoKeywords(request.keywords)
    /\ (Answered("/api/combined") /\ NoKeywords(request.keywords)) =>
          /\ response.status = 200
          /\ response.body =
                CombinedBody(IF Falsy(request.keywords) THEN CuratedScores
                             ELSE <<>>,
                             lastCall[1].value)

\* /api/trends rejected a keywords parameter of separators and blanks
C6_Witness ==
    /\ Answered("/api/trends")
    /\ request.keywords # <<>>
    /\ request.keywords[1] # <<>>
    /\ NoKeywords(request.keywords)
    /\ response.status = 400

---------------------------------------------------------------------------
(* Claims about the summaries of compute_fashion_clusters *)

SourceTag == lastCall[1].value.meta.source

\* C11 as stated: the tag is one of live, mock, fallback_error and names the
\* branch that built the summary.
C11_TagNamesRegime ==
    lastCall # <<>> =>
       /\ SourceTag \in {"live", "mock", "fallback_error"}
       /\ SourceTag = lastCall[1].made

\* the tag the code writes in each branch
TagOf(branch) == IF branch = "live" THEN "fashion-mnist" ELSE branch

\* C11, amended: every summary returned, built in the call or taken from
\* the cache, carries a tag from {fashion-mnist, mock, fallback_error}:
\* fashion-mnist exactly when the pipeline that built it ran to completion,
\* mock exactly when it was built without sklearn, fallback_error exactly
\* when a step of the pipeline that built it raised.
C11_TagNamesBranch ==
    lastCall # <<>> =>
       /\ SourceTag \in {"fashion-mnist", "mock", "fallback_error"}
       /\ lastCall[1].made \in {"live", "mock", "fallback_error"}
       /\ SourceTag = TagOf(lastCall[1].made)
       /\ (SourceTag = "mock") = ~_HAS_SKLEARN
       /\ lastCall[1].path # "hit" =>
             /\ (SourceTag = "fashion-mnist") = (world.pipeline = "returned")
             /\ (SourceTag = "fallback_error") = (world.pipeline = "raised")

\* a summary built by the except branch was returned from the cache
C11_Witness ==
    /\ lastCall # <<>>
    /\ lastCall[1].path = "hit"
    /\ lastCall[1].made = "fallback_error"
    /\ SourceTag = "fallback_error"

---------------------------------------------------------------------------
(* Claims about the combined endpoint under failure *)

\* a score in units of 1/Scale lies in [0,1]
InUnit(v) == 0 <= v /\ v <= Scale

\* every score of a combined body lies in [0,1]
ScoresInUnit(body) ==
    /\ \A i \in DOMAIN body.clusters :
          /\ InUnit(body.clusters[i].cluster_pop_score)
          /\ InUnit(body.clusters[i].trend_score)
          /\ InUnit(body.clusters[i].combined_score)
    /\ \A i \in DOMAIN body.extra_trends :
          InUnit(body.extra_trends[i].trend_score)

\* a source tag somewhere in a combined body: at the top, in a meta record,
\* or in an entry
CarriesSourceTag(body) ==
    \/ "source" \in DOMAIN body
    \/ "meta" \in DOMAIN body
    \/ \E i \in DOMAIN body.clusters : "source" \in DOMAIN body.clusters[i]
    \/ \E i \in DOMAIN body.extra_trends :
          "source" \in DOMAIN body.extra_trends[i]

\* the provider is missing or raised, sklearn is missing, and the request
\* named at least one keyword
BothSourcesFailed ==
    /\ Answered("/api/combined")
    /\ MockScoresDue
    /\ RequestKeywords # <<>>
    /\ ~_HAS_SKLEARN

\* C12: with both sources failed, a combined request with keywords is
\* answered 200 with a combined body whose scores all lie in [0,1] and which
\* carries source tags telling that fallback data was used.
C12_FallbackResponseTagged ==
    BothSourcesFailed =>
       /\ response.status = 200
       /\ Len(response.body.clusters) = request.n_clusters
       /\ ScoresInUnit(response.body)
       /\ CarriesSourceTag(response.body)

\* the part of C12 the code keeps: answered, well formed, scores in [0,1]
C12_FallbackResponseWellFormed ==
    BothSourcesFailed =>
       /\ response.status = 200
       /\ Len(response.body.clusters) = request.n_clusters
       /\ ScoresInUnit(response.body)

---------------------------------------------------------------------------
(* Claims about mock_trend_scores *)

\* C13: any two calls with the same keywords return the same mapping, in the
\* same run or in different runs.
C13_SameAcrossRuns ==
    fn = "mock_trend_scores" =>
       \A i, j \in DOMAIN ret : ret[i].scores = ret[j].scores

\* the part of C13 the code keeps: calls in one run (one hash seed) agree
C13_SameWithinRun ==
    fn = "mock_trend_scores" =>
       \A i, j \in DOMAIN ret :
          ret[i].seed = ret[j].seed => ret[i].scores = ret[j].scores

---------------------------------------------------------------------------
(* Claims about what a call leaves in the cache *)

\* C14: when a call has returned, by the mock branch, the live branch, the
\* except branch or the cache branch, the slot holds the requested key with
\* exactly the summary returned to the caller.
C14_SlotHoldsReturned ==
    lastCall # <<>> =>
       /\ _CLUSTER_CACHE =
             CacheEntry(CacheKey(lastCall[1].n_clusters, lastCall[1].sample_limit),
                        lastCall[1].value)
       /\ response.body = lastCall[1].value

\* the except branch built a summary over the entry of another key
C14_Witness ==
    /\ lastCall # <<>>
    /\ lastCall[1].path = "fallback_error"
    /\ lastCall[1].prev # <<>>
    /\ lastCall[1].prev # <<LastKey>>
    /\ _CLUSTER_CACHE[1].key = CacheKey(LastKey[1], LastKey[2])
    /\ _CLUSTER_CACHE[1].value.meta.source = "fallback_error"

---------------------------------------------------------------------------
(* Claims about the counts of a summary *)

RECURSIVE SumCounts(_)
SumCounts(clusters) ==
    IF clusters = <<>> THEN 0
    ELSE Head(clusters).count + SumCounts(Tail(clusters))

Min(a, b) == IF a < b THEN a ELSE b

LastClusters == lastCall[1].value.clusters

\* min(sample_limit, dataset size) for the latest call
SampledPopulation == Min(lastCall[1].sample_limit, DatasetSize)

\* C15 as stated: in every run the counts are non-negative and sum to the
\* sampled population size.
C15_CountsSumToSample ==
    lastCall # <<>> =>
       /\ \A i \in DOMAIN LastClusters : LastClusters[i].count >= 0
       /\ SumCounts(LastClusters) = SampledPopulation

\* C15, amended: a summary built by the live branch has non-negative counts
\* that sum to the number of items clustered, which it records as sampled
\* and which is min(sample_limit, dataset size); a summary built by the mock
\* or the except branch records no sample, and each of its counts is a
\* random integer in 20..200 (mock) or 10..200 (fallback_error).
C15_LiveCountsSumToSample ==
    lastCall # <<>> =>
       /\ \A i \in DOMAIN LastClusters : LastClusters[i].count >= 0
       /\ lastCall[1].made = "live" =>
             /\ lastCall[1].value.meta.sampled = <<SampledPopulation>>
             /\ SumCounts(LastClusters) = SampledPopulation
       /\ lastCall[1].made # "live" =>
             /\ lastCall[1].value.meta.sampled = <<>>
             /\ \A i \in DOMAIN LastClusters :
                   /\ LastClusters[i].count <= 200
                   /\ LastClusters[i].count >=
                         (IF lastCall[1].made = "mock" THEN 20 ELSE 10)

\* the live branch clustered a sample smaller than the dataset into two
\* clusters, neither empty
C15_Witness ==
    /\ lastCall # <<>>
    /\ lastCall[1].made = "live"
    /\ lastCall[1].path = "live"
    /\ lastCall[1].sample_limit < DatasetSize
    /\ Len(LastClusters) = 2
    /\ \A i \in DOMAIN LastClusters : LastClusters[i].count > 0

---------------------------------------------------------------------------
(* Claims about the batches of fetch_google_trends *)

\* batch b of a keyword sequence cut every five keywords
BatchOf(keywords, b) ==
    SubSeq(keywords, 5 * (b - 1) + 1, Min(5 * b, Len(keywords)))

\* the batches that hold keyword k
BatchesWith(keywords, k) ==
    {b \in 1..NumChunks(Len(keywords)) :
        \E i \in DOMAIN BatchOf(keywords, b) : BatchOf(keywords, b)[i] = k}

\* the raw score the provider gave keyword k: the mean of its column in the
\* answer to the last batch that holds it, 0 without such a column
RawScore(keywords, outcomes, k) ==
    LET bs == BatchesWith(keywords, k)
        b == CHOOSE x \in bs : \A y \in bs : y <= x
        cols == outcomes[b].cols
        at == {i \in DOMAIN cols : cols[i].k = k /\ cols[i].v # <<>>}
    IN  IF outcomes[b].kind = "frame" /\ at # {}
        THEN cols[CHOOSE i \in at : TRUE].v[1] ELSE 0

\* raw scaled over the whole set of raw scores, to four decimals
ScaledOverAll(raw, all) ==
    LET lo == CHOOSE x \in all : \A y \in all : x <= y
        hi == CHOOSE x \in all : \A y \in all : y <= x
    IN  IF hi = lo THEN 0
        ELSE Round([n |-> NonNeg(raw) - NonNeg(lo),
                    d |-> NonNeg(hi) - NonNeg(lo)], 4)

\* C16: the provider is handed the keywords in consecutive batches of at
\* most five, in input order, every position in exactly one batch (only the
\* last batch may be shorter, and after a batch that raises none is sent);
\* a call that returns gives one mapping with one entry per keyword, whose
\* score is its raw score scaled once over the raw scores of all batches.
C16_BatchesThenOneNormalization ==
    (fn = "fetch_google_trends" /\ ret # <<>>) =>
        LET r == ret[1]
            ks == args.keywords
            all == {RawScore(ks, args.outcomes, ks[i]) : i \in DOMAIN ks}
        IN  /\ Len(r.sent) <= NumChunks(Len(ks))
            /\ \A b \in DOMAIN r.sent :
                  /\ r.sent[b] = BatchOf(ks, b)
                  /\ Len(r.sent[b]) \in 1..5
                  /\ b < NumChunks(Len(ks)) => Len(r.sent[b]) = 5
            /\ ~r.raised =>
                  /\ Len(r.sent) = NumChunks(Len(ks))
                  /\ {r.returned[1][i].k : i \in DOMAIN r.returned[1]}
                        = {ks[i] : i \in DOMAIN ks}
                  /\ \A i, j \in DOMAIN r.returned[1] :
                        r.returned[1][i].k = r.returned[1][j].k => i = j
                  /\ \A i \in DOMAIN r.returned[1] :
                        r.returned[1][i].v =
                           ScaledOverAll(RawScore(ks, args.outcomes,
                                                  r.returned[1][i].k), all)

\* two batches were answered with frames and the mapping holds a score
\* strictly between 0 and 1
C16_Witness ==
    /\ fn = "fetch_google_trends" /\ ret # <<>>
    /\ ~ret[1].raised
    /\ Len(ret[1].sent) = 2
    /\ Len(ret[1].sent[1]) = 5
    /\ args.outcomes[1].kind = "frame" /\ args.outcomes[2].kind = "frame"
    /\ Len(ret[1].returned[1]) = 3
    /\ \E i \in DOMAIN ret[1].returned[1] :
          0 < ret[1].returned[1][i].v /\ ret[1].returned[1][i].v < Scale

---------------------------------------------------------------------------
(* Claims about the entries of combine_trends_with_clusters *)

\* the category of a cluster, stated apart from the code
ResolvedCategory(c) ==
    IF c.label_hint \in {<<>>, << <<>> >>}
    THEN <<"cluster_">> \o IntStr(c.cluster_id)
    ELSE c.label_hint[1]

\* trend_scores[k], or 0.0 when k is not a key
TrendOf(d, k) ==
    IF \E i \in DOMAIN d : d[i].k = k THEN d[Place(d, k)].v ELSE 0

\* one entry per cluster, in the order of the clusters, with the cluster's
\* id, its resolved category and the score Score(v) of that category's trend
EntriesAre(Score(_)) ==
    LET d == args.trend_scores
        cs == args.cluster_summary.clusters
        out == ret[1].clusters
    IN  /\ Len(out) = Len(cs)
        /\ \A i \in DOMAIN out :
              /\ out[i].cluster_id = cs[i].cluster_id
              /\ out[i].category = ResolvedCategory(cs[i])
              /\ out[i].trend_score = Score(TrendOf(d, ResolvedCategory(cs[i])))

\* C17 as stated: one entry per cluster in input order, the category resolved
\* from label_hint or cluster_<id>, and trend_score equal to
\* trend_scores[category], 0.0 for a missing key.
C17_EntriesCarryTrend ==
    (fn = "combine_trends_with_clusters" /\ ret # <<>>) =>
        EntriesAre(Unrounded)

\* C17, amended: the same, with trend_score equal to trend_scores[category]
\* rounded to three decimals.
C17_EntriesCarryRoundedTrend ==
    (fn = "combine_trends_with_clusters" /\ ret # <<>>) =>
        EntriesAre(ToThreeDecimals)

\* a cluster with an empty label_hint took the trend of cluster_0, rounded,
\* and a cluster labelled tops, outside the trend mapping, took 0
C17_Witness ==
    /\ fn = "combine_trends_with_clusters" /\ ret # <<>>
    /\ Len(ret[1].clusters) >= 2
    /\ args.cluster_summary.clusters[1].label_hint = << <<>> >>
    /\ ret[1].clusters[1].category = <<"cluster_", "0">>
    /\ ret[1].clusters[1].trend_score = 3330
    /\ ret[1].clusters[2].category = <<"tops">>
    /\ ~DictHas(args.trend_scores, <<"tops">>)
    /\ ret[1].clusters[2].trend_score = 0

---------------------------------------------------------------------------
(* Claims about synthetic summaries in the cache *)

\* C18: after a call for key k returned a summary built by the mock or the
\* except branch, a next call with key k returns that same summary from the
\* cache and does not enter the live pipeline, although the pipeline could
\* succeed; the summary it returns is again a synthetic one, so this goes on
\* until a call with another key.
C18_SyntheticStaysCached ==
    [][(/\ CallAfterCall
        /\ LastKey' = LastKey
        /\ lastCall[1].made \in {"mock", "fallback_error"}) =>
          /\ lastCall'[1].value = lastCall[1].value
          /\ lastCall'[1].made = lastCall[1].made
          /\ lastCall'[1].path = "hit"
          /\ world'.pipeline = "unused"
          /\ _CLUSTER_CACHE' = _CLUSTER_CACHE]_vars

\* with sklearn installed, a summary of the except branch was returned from
\* the cache to a call with the key of the call before it, itself a hit
C18_Witness ==
    /\ _HAS_SKLEARN
    /\ lastCall # <<>>
    /\ lastCall[1].prev = <<LastKey>>
    /\ lastCall[1].path = "hit"
    /\ lastCall[1].made = "fallback_error"
    /\ _CLUSTER_CACHE[1].value.meta.source = "fallback_error"
    /\ world.pipeline = "unused"

====
